---- MODULE Spec2Model ----
(***************************************************************************)
(* obs-summarizer: the incremental digest pipeline (run_pipeline), its     *)
(* checkpoint store (state.py), its summary cache (cache.py), discovery    *)
(* (scanner.py), the per-note summarizer (summarizer.py) and the digest    *)
(* writer (digest_writer.py), as one state machine over the disk state.    *)
(*                                                                         *)
(* Time is an integer clock; a modification time, an ISO timestamp and a   *)
(* datetime are points of that clock.  None (Python's None, JSON null, an  *)
(* absent file) is -1.                                                     *)
(***************************************************************************)
EXTENDS Integers, Sequences, FiniteSets, TLC

\* ---------------------------------------------------------------- bounds
NumFiles == 2
MaxClock == 2
\* runs of the pipeline in one behaviour
MaxRuns == 2
\* notes the user saves or deletes in one behaviour
MaxEdits == 1
\* failures of the environment in one behaviour: I/O errors, backend errors,
\* answers of the transformer that are no JSON object, kills of the process
MaxFaults == 1

\* ------------------------------------------------------------- constants
None == -1
\* clock values in one calendar day
TicksPerDay == 2
\* an ISO string datetime.fromisoformat rejects
BadIso == -2
\* an exception that leaves run_pipeline (no status is returned)
Propagated == -3
\* the process was interrupted or killed before run_pipeline returned
NoStatus == -4

Paths == 1..NumFiles
Times == 0..MaxClock

\* str(file_path): note 1 is "n", note p is "n:<p-1>"
PathName(p) == IF p = 1 THEN <<"n">> ELSE <<"n", ":", p - 1>>

\* a key computed from the path alone
make_cache_key_PathOnly(p, mtime_ns) == PathName(p) \o <<":", 0>>

\* the SHA-256 digest of f"{file_path}:{mtime_ns}", taken as the text it is
\* the digest of
make_cache_key(p, mtime_ns) == PathName(p) \o <<":", mtime_ns>>

Keys == {make_cache_key(p, t) : p \in Paths, t \in Times}

\* exception classes the steps of a run raise; all derive from Exception
Recoverable == {"ValueError", "KeyError", "TypeError", "OSError"}
ExceptionKinds == Recoverable \cup {"AttributeError", "IndexError", "APIError"}

\* what one transformer call can answer: a JSON object with every field, a
\* JSON object without tags, valid JSON that is no object, text with no JSON
\* in it, or a backend error raised after the client's own retries
Responses == {"full", "notags", "nonobj", "garbage", "error"}

NoEntry == [path |-> 0, mtime_utc |-> None, tags |-> "none"]
\* what json.load returns for valid JSON that is no object (a list, a string)
NonObject == [path |-> 0, mtime_utc |-> None, tags |-> "nonobj"]

\* a dump that leaves out the tags member
dumps_WithoutTags(e) == <<"{", e.path, e.mtime_utc, "}">>

\* json.dump(data, f): the text of the object, member by member
dumps(e) == <<"{", e.path, e.mtime_utc, e.tags, "}">>

\* json.load(f) on a text json.dump wrote
loads(text) ==
    IF text[1] = "{"
    THEN [path |-> text[2], mtime_utc |-> text[3], tags |-> text[4]]
    ELSE NonObject

\* a file of the cache directory: what it is and the text in it
MissingFile == [kind |-> "missing", data |-> <<>>]
GarbageFile == [kind |-> "garbage", data |-> <<>>]
JsonFile(e) == [kind |-> "json", data |-> dumps(e)]
\* files this program did not write: bytes that are no UTF-8, and valid JSON
\* that is no object
UndecodableFile == [kind |-> "undecodable", data |-> <<>>]
NonObjectFile == [kind |-> "nonobj", data |-> <<"[", "]">>]

NoCheckpoint == [kind |-> "missing", last_run_iso |-> None]
GarbageCheckpoint == [kind |-> "garbage", last_run_iso |-> None]
JsonCheckpoint(t) == [kind |-> "json", last_run_iso |-> t]

NoDigest == [exists |-> FALSE, content |-> <<>>, mtime |-> None]

\* ------------------------------------------------------------- pathlib
\* A path is the sequence of its components; a first component "/" makes it
\* absolute.  The vault is the directory /v; the process runs in /.
VaultDir == <<"/", "v">>
Cwd == <<"/">>

\* the symbolic links of the file system and where each points: /vl is the
\* vault under another name, /v/lnk leaves the vault, /v/ina stays inside
readlink(path) ==
    CASE path = <<"/", "vl">> -> VaultDir
      [] path = <<"/", "v", "lnk">> -> <<"/", "out">>
      [] path = <<"/", "v", "ina">> -> <<"/", "v", "a">>
      [] OTHER -> path

\* Path.__truediv__: an absolute right operand replaces the left one
join(base, other) ==
    IF other # <<>> /\ other[1] = "/" THEN other ELSE base \o other

RECURSIVE walk(_, _)
walk(at, rest) ==
    IF rest = <<>> THEN at
    ELSE IF Head(rest) = ".."
         THEN walk(IF Len(at) > 1 THEN SubSeq(at, 1, Len(at) - 1) ELSE at, Tail(rest))
         ELSE walk(readlink(Append(at, Head(rest))), Tail(rest))

\* Path.resolve(): absolute, ".." removed, symbolic links followed
resolve(path) ==
    IF path # <<>> /\ path[1] = "/" THEN walk(<<"/">>, Tail(path)) ELSE walk(Cwd, path)

IsPrefix(a, b) == Len(a) <= Len(b) /\ SubSeq(b, 1, Len(a)) = a

\* Path.relative_to(base) raises ValueError when base is no prefix
relative_to_raises(path, base) == ~IsPrefix(base, path)

VARIABLES
    clock,              \* datetime.now()
    vault,              \* path -> st_mtime of the note, None when it does not exist
    stateFile,          \* the checkpoint file config["state_path"]
    tmpFile,            \* the NamedTemporaryFile of the save_state in progress
    cache,              \* cache key -> the file <key>.json of config["cache_dir"]
    digest,             \* the digest note write_digest_note writes
    since,              \* run_pipeline's argument since
    cfgSince,           \* config["since_iso"]
    dry_run,
    no_cache,
    include_folders,    \* config["include_folders"], <<>> when it is not set
    digest_folder,      \* config["digest_folder"]
    pc,                 \* position of the run inside run_pipeline
    result,             \* the status run_pipeline returned
    exc,                \* the exception that ended the run, "none" otherwise
    interrupted,        \* the process died at pc (kill, KeyboardInterrupt)
    state,              \* the dict load_state returned
    since_dt,
    target_files,
    i,                  \* index of the candidate in the for loop
    per_note_summaries,
    mtime_ns,           \* the st_mtime_ns read for the candidate
    cache_key,          \* the key computed for the candidate
    summary,            \* the summary being stamped and cached
    pre,                \* the disk as it was when the run started
    calls,              \* what the run has invoked so far
    outcome,            \* per processed candidate: "hit", "produced" or the exception raised
    changed,            \* a note was saved or deleted since the last discovery
    seen,               \* the st_mtime of each note as the last discovery found it
    prev,               \* the previous run, as the next one finds it
    origin,             \* cache key -> the (note, mtime) its entry was written for
    runs,               \* runs started so far
    edits,              \* notes saved or deleted so far
    faults,             \* failures of the environment so far
    dirs,               \* write_digest_note alone: the directories that exist
    notes,              \* write_digest_note alone: the digest notes on disk
    wcall,              \* write_digest_note alone: the last call and its outcome
    tree,               \* the scanner alone: file -> what it is and its st_mtime
    scall,              \* the scanner alone: the arguments of the two calls
    sret,               \* the scanner alone: how far it got and what it returned
    llm                 \* summarize_note alone: the calls of the client, attempt by attempt

disk == <<vault, stateFile, tmpFile, cache, digest>>
inputs == <<since, cfgSince, dry_run, no_cache, include_folders, digest_folder>>
control == <<pc, result, exc, interrupted>>
locals == <<state, since_dt, target_files, i, per_note_summaries, mtime_ns,
            cache_key, summary>>
ghosts == <<pre, calls, outcome, changed, seen, prev, origin>>
counters == <<runs, edits>>
writer == <<dirs, notes, wcall>>
scanner == <<tree, scall, sret>>
aux == <<writer, scanner, llm>>
vars == <<clock, disk, inputs, control, locals, ghosts, counters, faults, aux>>

\* ------------------------------------------------------------ state.py
\* load_state: a missing file and a file json.load rejects both give the
\* first-run state (the second with a warning)
load_state(file) ==
    IF file.kind = "json"
    THEN [last_run_iso |-> file.last_run_iso]
    ELSE [last_run_iso |-> None]

\* an ISO timestamp without a UTC offset for the clock value t; fromisoformat
\* parses it to a naive datetime
Naive(t) == t + 10
IsNaive(dt) == dt >= 10

\* dt.replace(tzinfo=timezone.utc) on a naive datetime
AsUtc(dt) == IF IsNaive(dt) THEN dt - 10 ELSE dt

\* datetime.fromisoformat
fromisoformat_ok(iso) == iso \in Times \cup {Naive(t) : t \in Times}

\* get_since_datetime: the string the cutoff is parsed from, by priority;
\* None when no source is present and the cutoff is datetime.now()
cutoff_source(cfg, since_iso, st) ==
    IF since_iso # None THEN since_iso
    ELSE IF cfg # None THEN cfg
    ELSE IF st.last_run_iso # None THEN st.last_run_iso
    ELSE None

\* a resolution that lets the configured override win over the caller's
get_since_datetime_ConfigFirst(cfg, since_iso, st, now) ==
    IF cfg # None THEN AsUtc(cfg)
    ELSE IF since_iso # None THEN AsUtc(since_iso)
    ELSE IF st.last_run_iso # None THEN st.last_run_iso
    ELSE now

\* a first-run default that lies before the current time, as the docstring
\* has it
get_since_datetime_Earlier(cfg, since_iso, st, now) ==
    IF since_iso # None THEN AsUtc(since_iso)
    ELSE IF cfg # None THEN AsUtc(cfg)
    ELSE IF st.last_run_iso # None THEN st.last_run_iso
    ELSE now - 1

\* the two overrides are made timezone-aware, the checkpoint is returned as
\* fromisoformat parsed it
get_since_datetime(cfg, since_iso, st, now) ==
    IF since_iso # None THEN AsUtc(since_iso)
    ELSE IF cfg # None THEN AsUtc(cfg)
    ELSE IF st.last_run_iso # None THEN st.last_run_iso
    ELSE now

\* ---------------------------------------------------------- scanner.py
\* a sort that returns the list as it was given
sorted_AsGiven(s, mt) == s

\* sorted(seq, key=mtime): a stable insertion sort
RECURSIVE InsertByMtime(_, _, _)
InsertByMtime(s, p, mt) ==
    IF s = <<>> THEN <<p>>
    ELSE IF mt[p] < mt[Head(s)] THEN <<p>> \o s
    ELSE <<Head(s)>> \o InsertByMtime(Tail(s), p, mt)

RECURSIVE sorted(_, _)
sorted(s, mt) ==
    IF s = <<>> THEN <<>>
    ELSE InsertByMtime(sorted(SubSeq(s, 1, Len(s) - 1), mt), s[Len(s)], mt)

\* root.glob("**/*.md"): the notes that exist, in directory order
RECURSIVE glob(_, _)
glob(n, mt) ==
    IF n = 0 THEN <<>>
    ELSE glob(n - 1, mt) \o (IF mt[n] # None THEN <<n>> ELSE <<>>)

list_markdown_files(mt) == sorted(glob(NumFiles, mt), mt)

\* a check of the first allow-list entry alone
list_markdown_files_raises_FirstOnly(vault_path, folders) ==
    /\ folders # <<>>
    /\ relative_to_raises(resolve(join(vault_path, folders[1])), resolve(vault_path))

\* the search roots: an allow-list entry that resolves outside the resolved
\* vault is ValueError
list_markdown_files_raises(vault_path, folders) ==
    \E k \in 1..Len(folders) :
        relative_to_raises(resolve(join(vault_path, folders[k])), resolve(vault_path))

\* a comparison that keeps a file modified at the cutoff
IsAfter_OrEqual(p, mt, cutoff) == mt[p] >= cutoff

\* `if mtime > since_dt`
IsAfter(p, mt, cutoff) == mt[p] > cutoff

RECURSIVE keep_since(_, _, _)
keep_since(s, mt, cutoff) ==
    IF s = <<>> THEN <<>>
    ELSE (IF IsAfter(Head(s), mt, cutoff) THEN <<Head(s)>> ELSE <<>>)
         \o keep_since(Tail(s), mt, cutoff)

filter_files_since(files, mt, cutoff) == sorted(keep_since(files, mt, cutoff), mt)

\* `mtime > since_dt` of an aware mtime and a naive cutoff is TypeError
filter_files_since_raises(files, cutoff) == files # <<>> /\ IsNaive(cutoff)

\* the markdown files of the vault on disk, by number, and where each is
Files == 1..3
RealPath(f) ==
    CASE f = 1 -> <<"/", "v", "a", "x.md">>
      [] f = 2 -> <<"/", "v", "a", "b", "y.md">>
      [] f = 3 -> <<"/", "v", "a", "priv", "t.md">>

\* the file a path names
file_at(path) == CHOOSE f \in Files : RealPath(f) = resolve(path)

\* root.glob("**/*.md"): the files below root, each as root joined with its
\* place below root, in directory order
RECURSIVE glob_md(_, _)
glob_md(root, n) ==
    IF n = 0 THEN <<>>
    ELSE glob_md(root, n - 1) \o
         (IF IsPrefix(resolve(root), RealPath(n))
          THEN <<root \o SubSeq(RealPath(n), Len(resolve(root)) + 1, Len(RealPath(n)))>>
          ELSE <<>>)

\* `roots`: the resolved allow-list entries, or the vault as it was given
search_roots(vault_path, folders) ==
    IF folders # <<>>
    THEN [k \in 1..Len(folders) |-> resolve(join(vault_path, folders[k]))]
    ELSE <<vault_path>>

\* files.extend(root.glob("**/*.md")) for each root
RECURSIVE collect(_)
collect(roots) ==
    IF roots = <<>> THEN <<>>
    ELSE collect(SubSeq(roots, 1, Len(roots) - 1)) \o glob_md(roots[Len(roots)], 3)

\* vault.glob(pattern) for a pattern without wildcards: the file it names, or
\* the markdown files below the directory it names
expand(vault_path, pattern) ==
    LET match == vault_path \o pattern IN
    {match \o SubSeq(RealPath(f), Len(resolve(match)) + 1, Len(RealPath(f))) :
        f \in {g \in Files : IsPrefix(resolve(match), RealPath(g))}}

excluded_paths(vault_path, globs) ==
    UNION {expand(vault_path, globs[k]) : k \in 1..Len(globs)}

\* `f not in excluded_paths and not f.is_symlink() and f.stat().st_size > 0`
eligible(path, tr, excluded) ==
    path \notin excluded /\ tr[file_at(path)].kind = "regular"

\* list_markdown_files on the tree tr
list_markdown_files_in(tr, vault_path, folders, globs) ==
    LET files == collect(search_roots(vault_path, folders))
        excluded == excluded_paths(vault_path, globs)
        Keep(path) == eligible(path, tr, excluded)
        mt == [path \in {files[k] : k \in 1..Len(files)} |-> tr[file_at(path)].mtime]
    IN sorted(SelectSeq(files, Keep), mt)

\* ------------------------------------------------------------ cache.py
\* load_cache: the entry, or None for a missing file and for one json.load
\* rejects
load_cache(c, key) ==
    IF c[key].kind \in {"json", "nonobj"} THEN loads(c[key].data) ELSE NoEntry

\* json.load reads the file as UTF-8: UnicodeDecodeError, a ValueError that
\* `except (json.JSONDecodeError, IOError)` does not catch
load_cache_raises(c, key) == c[key].kind = "undecodable"

\* a lookup that takes every entry for a miss
Truthy_Never(e) == FALSE

\* `if cached:` of the cache lookup
Truthy(e) == e # NoEntry

\* open(cache_file, "w"): the file exists and is empty until the dump is done
save_cache_open(c, key) == [c EXCEPT ![key] = GarbageFile]

\* a dump that leaves the entry file incomplete
save_cache_dump_Truncated(c, key, data) == [c EXCEPT ![key] = GarbageFile]

\* json.dump(data, f) and the close of the with block
save_cache_dump(c, key, data) == [c EXCEPT ![key] = JsonFile(data)]

\* ------------------------------------------------------- summarizer.py
TagsOf(r) == IF r = "full" THEN "some" ELSE "empty"

\* what one call of the client does: "error" raises, anything else is text
\* extract_json parses ("full", "notags", "nonobj") or rejects ("garbage")
Parses(r) == r \in {"full", "notags", "nonobj"}

\* the setdefault calls: they need a dict
Defaults(r, n) ==
    IF r = "nonobj"
    THEN [exc |-> "AttributeError", tags |-> "none", n |-> n]
    ELSE [exc |-> "none", tags |-> TagsOf(r), n |-> n]

\* a summarize_note that answers two unparseable responses with a summary of
\* defaults
summarize_note_Placeholder(r1, r2) ==
    IF r1 = "error" THEN [exc |-> "APIError", tags |-> "none", n |-> 1]
    ELSE IF Parses(r1) THEN Defaults(r1, 1)
    ELSE IF r2 = "error" THEN [exc |-> "APIError", tags |-> "none", n |-> 2]
    ELSE IF Parses(r2) THEN Defaults(r2, 2)
    ELSE [exc |-> "none", tags |-> "empty", n |-> 2]

\* summarize_note on the answers r1 (first prompt) and r2 (strict prompt):
\* the exception it raises or the tags of the summary it returns, and the
\* number of calls it made
summarize_note(r1, r2) ==
    IF r1 = "error" THEN [exc |-> "APIError", tags |-> "none", n |-> 1]
    ELSE IF Parses(r1) THEN Defaults(r1, 1)
    ELSE IF r2 = "error" THEN [exc |-> "APIError", tags |-> "none", n |-> 2]
    ELSE IF Parses(r2) THEN Defaults(r2, 2)
    ELSE [exc |-> "ValueError", tags |-> "none", n |-> 2]

\* --------------------------------------------------------------- llm.py
Backends == {"claude", "local"}

\* the exceptions client.messages.create and client.chat.completions.create
\* raise: RateLimitError (status 429), APIConnectionError, APITimeoutError,
\* and an APIStatusError with status 500, 503 or 400
BackendErrors ==
    {"RateLimitError", "APIConnectionError", "APITimeoutError", "Status500",
     "Status503", "Status400"}

\* e.status_code; APIConnectionError and APITimeoutError have none
status_code(e) ==
    CASE e = "RateLimitError" -> 429
      [] e = "Status500" -> 500
      [] e = "Status503" -> 503
      [] e = "Status400" -> 400
      [] OTHER -> None

\* isinstance(e, APIStatusError)
IsStatusError(e) == status_code(e) # None

\* the except clauses of call_claude in the pass `attempt` of the loop:
\* sleep and go round again, or re-raise; any other exception is not caught
call_claude(attempt, e) ==
    IF e \in {"RateLimitError", "APIConnectionError", "APITimeoutError"}
    THEN IF attempt < 2 THEN "sleep" ELSE "raise"
    ELSE "raise"

\* the except clauses of call_local in the pass `attempt` of the loop
call_local(attempt, e) ==
    IF IsStatusError(e)
    THEN IF attempt < 2 /\ status_code(e) \in {429, 500, 503}
         THEN "sleep" ELSE "raise"
    ELSE IF e \in {"APIConnectionError", "APITimeoutError"}
    THEN IF attempt < 2 THEN "sleep" ELSE "raise"
    ELSE "raise"

\* a client that gives up on the first error
on_error_NoRetry(backend, attempt, e) == "raise"

\* a client that sleeps after the last attempt too: the loop runs out
on_error_NoReraise(backend, attempt, e) ==
    IF backend = "claude"
    THEN IF call_claude(0, e) = "sleep" THEN "sleep" ELSE "raise"
    ELSE IF call_local(0, e) = "sleep" THEN "sleep" ELSE "raise"

\* what the client create_llm_client returned does with the exception e of
\* the pass `attempt`
on_error(backend, attempt, e) ==
    IF backend = "claude" THEN call_claude(attempt, e) ELSE call_local(attempt, e)

\* ---------------------------------------------------- digest_writer.py
\* format_digest_markdown: summary.get("tags", ["Uncategorized"])[0] raises
\* IndexError on an empty tags list
format_digest_markdown_raises(summaries) ==
    \E k \in 1..Len(summaries) : summaries[k].tags = "empty"

\* `".." in digest_folder` on one component of the folder string
HasDotDot(name) == name \in {"..", "a..b"}

\* a check of the folder string alone
write_digest_note_raises_StringOnly(vault_path, folder) ==
    \/ folder # <<>> /\ folder[1] = "/"
    \/ \E k \in 1..Len(folder) : HasDotDot(folder[k])

\* write_digest_note: the folder string starts with "/" or contains "..", or
\* the resolved folder is not below the resolved vault: ValueError
write_digest_note_raises(vault_path, folder) ==
    \/ folder # <<>> /\ folder[1] = "/"
    \/ \E k \in 1..Len(folder) : HasDotDot(folder[k])
    \/ relative_to_raises(resolve(join(resolve(vault_path), folder)), resolve(vault_path))

\* digest_dir = (vault / digest_folder).resolve()
digest_dir(vault_path, folder) == resolve(join(resolve(vault_path), folder))

\* digest_dir.mkdir(parents=True, exist_ok=True)
mkdir(ds, d) == ds \cup {SubSeq(d, 1, n) : n \in 1..Len(d)}

\* date.strftime('%Y-%m-%d'): the day a time falls in
strftime(date) == date \div TicksPerDay

\* a file name that keeps the time of day
digest_filename_WithTime(date) == date

\* f"{date.strftime('%Y-%m-%d')}-digest.md", as the day it names
digest_filename(date) == strftime(date)

\* digest_path.write_text(digest_content): the file is created or replaced
write_text(fs, d, name, content) ==
    {f \in fs : ~(f.dir = d /\ f.name = name)}
        \cup {[dir |-> d, name |-> name, content |-> content]}

\* a digest note that is written after the time of the checkpoint was taken
write_digest_note_Later(content, now) ==
    [exists |-> TRUE, content |-> content, mtime |-> now + 1]

\* write_digest_note: path.write_text at the date-derived name
write_digest_note(content, now) ==
    [exists |-> TRUE, content |-> content, mtime |-> now]

\* --------------------------------------------------------- pipeline.py
\* a loop that skips the candidate whatever it raised
ItemHandler_SkipAll(kind) == "skip"

\* the except clauses of the for loop: skip the candidate or re-raise
ItemHandler(kind) == IF kind \in Recoverable THEN "skip" ELSE "raise"

\* an outer handler that catches the recoverable kinds only
OuterHandler_RecoverableOnly(kind) == IF kind \in Recoverable THEN 1 ELSE Propagated

\* the outer `except Exception`: the status returned for an exception
OuterHandler(kind) == IF kind \in ExceptionKinds THEN 1 ELSE Propagated

\* a run that goes on with an empty batch
EmptyBatch_Never(files) == FALSE

\* `if not target_files: return 2`
EmptyBatch(files) == files = <<>>

\* a run that ignores the flag
DryRunStops_Never(flag) == FALSE

\* `if dry_run:` the candidates are printed and the run returns 0
DryRunStops(flag) == flag

\* a run that rolls up an empty aggregate
AllFailed_Never(agg) == FALSE

\* an aggregate built newest first
Aggregate_Prepend(agg, s) == <<s>> \o agg

\* per_note_summaries.append(...)
Aggregate(agg, s) == Append(agg, s)

\* `if not per_note_summaries: return 1`
AllFailed(agg) == agg = <<>>

\* Step 10: `len([s for s in per_note_summaries if "path" in s])`; the
\* entries of the cache and the fresh summaries all carry the path stamp
num_cached(summaries) ==
    Cardinality({k \in 1..Len(summaries) : summaries[k].path # 0})

num_summarized(summaries) == Len(summaries) - num_cached(summaries)

\* a checkpoint that records the cutoff of the run instead of its time
new_checkpoint_FromCutoff(st, now) == [st EXCEPT !.last_run_iso = since_dt]

\* the checkpoint written after the digest: datetime.now(utc).isoformat()
new_checkpoint(st, now) == [st EXCEPT !.last_run_iso = now]

\* a save that opens the checkpoint file itself for writing
save_state_open_InPlace(sf, tf) == <<GarbageCheckpoint, tf>>

\* save_state, NamedTemporaryFile(dir=path.parent, delete=False): the pair
\* <<checkpoint file, temporary file>> after the temporary file is created
save_state_open(sf, tf) == <<sf, GarbageCheckpoint>>

\* json.dump(state, tmp) and the close of the with block
save_state_dump(sf, tf, st) == <<sf, JsonCheckpoint(st.last_run_iso)>>

\* Path(tmp_path).replace(path)
save_state_replace(sf, tf) == <<tf, NoCheckpoint>>

NoCalls == [llm |-> 0, client |-> 0, writer |-> 0, wrote |-> 0, save |-> 0]
\* what a run keeps of the run before it: whether that run got past discovery
\* and ended without returning 0 or 2, the string its cutoff was parsed from,
\* its cutoff, its candidates, the candidates whose entry it wrote, and whether
\* the notes were left alone between its discovery and this run's
NoPrev == [aborted |-> FALSE, src |-> None, since_dt |-> None,
           target_files |-> <<>>, produced |-> {}, quiet |-> FALSE]

InRun == pc \notin {"idle", "done"} /\ ~interrupted

\* the process before its first run, on a disk with the checkpoint file sf
\* and the cache directory c, configured with the override cfg, the
\* allow-list inc and the digest folder dig
BootWith(sf, cfg, c, inc, dig) ==
    /\ clock = 1
    /\ vault = [p \in Paths |-> 1]
    /\ stateFile = sf
    /\ tmpFile = NoCheckpoint
    /\ cache = c
    /\ digest = NoDigest
    /\ since = None /\ cfgSince = cfg /\ dry_run = FALSE /\ no_cache = FALSE
    /\ include_folders = inc /\ digest_folder = dig
    /\ pc = "idle" /\ result = NoStatus /\ exc = "none" /\ interrupted = FALSE
    /\ state = [last_run_iso |-> None]
    /\ since_dt = None
    /\ target_files = <<>>
    /\ i = 0
    /\ per_note_summaries = <<>>
    /\ mtime_ns = None
    /\ cache_key = <<>>
    /\ summary = NoEntry
    /\ pre = [stateFile |-> stateFile, cache |-> cache, digest |-> digest]
    /\ calls = NoCalls
    /\ outcome = <<>>
    /\ changed = FALSE /\ seen = vault
    /\ prev = NoPrev
    /\ origin = [k \in Keys |-> <<>>]
    /\ runs = 0 /\ edits = 0 /\ faults = 0

\* a configuration without an allow-list whose digest folder is Digests
Boot(sf, cfg, c) == BootWith(sf, cfg, c, <<>>, <<"Digests">>)

EmptyCache == [k \in Keys |-> MissingFile]

\* the file system before write_digest_note is called: the vault, the
\* folder a in it, and a directory outside it
NoCall == [vault_path |-> <<>>, digest_folder |-> <<>>, content |-> "none",
           date |-> None, exc |-> "none", replaced |-> "none"]
WriterIdle ==
    /\ dirs = {<<"/">>, VaultDir, <<"/", "v", "a">>, <<"/", "out">>}
    /\ notes = {}
    /\ wcall = NoCall

\* the scanner before it is called on its own
NoScan == [vault_path |-> <<>>, include_folders |-> <<>>, exclude_globs |-> <<>>,
           since_dt |-> None]
NoFiles == [pc |-> "idle", exc |-> "none", all_files |-> <<>>, target_files |-> <<>>]
ScannerIdle ==
    /\ tree = [f \in {} |-> 0]
    /\ scall = NoScan
    /\ sret = NoFiles

\* the client before summarize_note is called on its own
NoLlm == [pc |-> "idle", backend |-> "none", attempt |-> 0, log |-> <<>>,
          answers |-> <<>>, exc |-> "none", tags |-> "none"]
ClientIdle == llm = NoLlm

\* a disk only this program wrote to
Init ==
    /\ \E sf \in {NoCheckpoint, JsonCheckpoint(0)}, cfg \in {None, 1} :
          Boot(sf, cfg, EmptyCache)
    /\ WriterIdle /\ ScannerIdle /\ ClientIdle

\* a disk with a file this program did not write: a cache entry of note 1
\* that is truncated, undecodable or no object; a checkpoint that is no JSON;
\* a checkpoint or a configured override without a UTC offset
InitForeign ==
    /\ \/ \E f \in {GarbageFile, UndecodableFile, NonObjectFile} :
             Boot(JsonCheckpoint(0), None,
                  [EmptyCache EXCEPT ![make_cache_key(1, 1)] = f])
       \/ Boot(GarbageCheckpoint, None, EmptyCache)
       \/ Boot(JsonCheckpoint(Naive(0)), None, EmptyCache)
       \/ Boot(JsonCheckpoint(0), Naive(0), EmptyCache)
    /\ WriterIdle /\ ScannerIdle /\ ClientIdle

\* a configuration whose allow-list or digest folder may lie outside the
\* vault: by "..", by an absolute path, or by a symbolic link
InitBoundary ==
    /\ \/ \E inc \in {<<>>, <<<<"..", "out">>>>, <<<<"lnk">>>>} :
             BootWith(JsonCheckpoint(0), None, EmptyCache, inc, <<"Digests">>)
       \/ \E dig \in {<<"..", "out">>, <<"/", "out">>, <<"lnk">>} :
             BootWith(JsonCheckpoint(0), None, EmptyCache, <<>>, dig)
    /\ WriterIdle /\ ScannerIdle /\ ClientIdle

\* the environment fails once more, or does not
Fault == faults < MaxFaults /\ faults' = faults + 1
NoFault == faults' = faults

\* return <code>
Return(code) == pc' = "done" /\ result' = code /\ exc' = "none"

\* an exception reaches the outer handler of run_pipeline
Raise(kind) == pc' = "done" /\ result' = OuterHandler(kind) /\ exc' = kind

\* ------------------------------------------------------- environment
Tick ==
    /\ clock < MaxClock
    /\ clock' = clock + 1
    /\ UNCHANGED <<disk, inputs, control, locals, ghosts, counters, faults>>
    /\ UNCHANGED aux

\* the user saves a note
Touch(p) ==
    /\ edits < MaxEdits
    /\ vault[p] # clock
    /\ edits' = edits + 1
    /\ vault' = [vault EXCEPT ![p] = clock]
    /\ changed' = TRUE /\ seen' = seen
    /\ UNCHANGED <<clock, stateFile, tmpFile, cache, digest, inputs, control,
                   locals, pre, origin, calls, outcome, prev, runs, faults>>
    /\ UNCHANGED aux

\* the user deletes a note
Delete(p) ==
    /\ edits < MaxEdits
    /\ vault[p] # None
    /\ edits' = edits + 1
    /\ vault' = [vault EXCEPT ![p] = None]
    /\ changed' = TRUE /\ seen' = seen
    /\ UNCHANGED <<clock, stateFile, tmpFile, cache, digest, inputs, control,
                   locals, pre, origin, calls, outcome, prev, runs, faults>>
    /\ UNCHANGED aux

\* the process is killed, or KeyboardInterrupt passes through run_pipeline
Interrupt ==
    /\ InRun
    /\ Fault
    /\ interrupted' = TRUE
    /\ result' = NoStatus
    /\ UNCHANGED <<clock, disk, inputs, pc, exc, locals, ghosts, counters>>
    /\ UNCHANGED aux

\* ------------------------------------------------------ run_pipeline
StartRun ==
    /\ pc \in {"idle", "done"} \/ interrupted
    /\ runs < MaxRuns
    /\ runs' = runs + 1
    /\ since' \in {None, BadIso, 0}
    /\ cfgSince' = cfgSince
    /\ dry_run' \in BOOLEAN
    /\ no_cache' \in BOOLEAN
    /\ pc' = "load_state" /\ result' = NoStatus /\ exc' = "none"
    /\ interrupted' = FALSE
    /\ state' = [last_run_iso |-> None]
    /\ since_dt' = None
    /\ target_files' = <<>>
    /\ i' = 0
    /\ per_note_summaries' = <<>>
    /\ mtime_ns' = None
    /\ cache_key' = <<>>
    /\ summary' = NoEntry
    /\ pre' = [stateFile |-> stateFile, cache |-> cache, digest |-> digest]
    /\ calls' = NoCalls
    /\ outcome' = <<>>
    /\ prev' = IF target_files # <<>> /\ result \notin {0, 2}
               THEN [aborted |-> TRUE, src |-> cutoff_source(cfgSince, since, state),
                     since_dt |-> since_dt, target_files |-> target_files,
                     produced |-> {target_files[j] : j \in
                                    {k \in 1..Len(outcome) : outcome[k] = "produced"}},
                     quiet |-> FALSE]
               ELSE NoPrev
    /\ tmpFile' = NoCheckpoint
    /\ UNCHANGED <<clock, vault, stateFile, cache, digest, include_folders,
                   digest_folder, changed, seen, origin, edits, faults>>
    /\ UNCHANGED aux

\* Step 1: load_state; Path.exists raises PermissionError on a directory
\* that cannot be searched
LoadState ==
    /\ pc = "load_state" /\ ~interrupted
    /\ \/ /\ NoFault
          /\ state' = load_state(stateFile)
          /\ pc' = "get_since"
          /\ UNCHANGED <<result, exc>>
       \/ /\ Fault
          /\ Raise("OSError")
          /\ UNCHANGED state
    /\ UNCHANGED <<clock, disk, inputs, interrupted, since_dt, target_files, i,
                   per_note_summaries, mtime_ns, cache_key, summary, ghosts, counters>>
    /\ UNCHANGED aux

\* Step 2: get_since_datetime; fromisoformat raises ValueError
GetSince ==
    /\ pc = "get_since" /\ ~interrupted
    /\ LET src == cutoff_source(cfgSince, since, state) IN
       IF src # None /\ ~fromisoformat_ok(src)
       THEN Raise("ValueError") /\ UNCHANGED since_dt
       ELSE /\ since_dt' = get_since_datetime(cfgSince, since, state, clock)
            /\ pc' = "discover"
            /\ UNCHANGED <<result, exc>>
    /\ UNCHANGED <<clock, disk, inputs, interrupted, state, target_files, i,
                   per_note_summaries, mtime_ns, cache_key, summary, ghosts, counters, faults>>
    /\ UNCHANGED aux

\* Step 3 and 4: list_markdown_files, filter_files_since, the empty batch and
\* the dry run; a stat that fails is OSError
Discover ==
    /\ pc = "discover" /\ ~interrupted
    /\ \/ /\ NoFault
          /\ list_markdown_files_raises(VaultDir, include_folders)
          /\ Raise("ValueError")
          /\ UNCHANGED <<target_files, changed, seen, prev>>
       \/ /\ NoFault
          /\ ~list_markdown_files_raises(VaultDir, include_folders)
          /\ filter_files_since_raises(list_markdown_files(vault), since_dt)
          /\ Raise("TypeError")
          /\ UNCHANGED <<target_files, changed, seen, prev>>
       \/ /\ NoFault
          /\ ~list_markdown_files_raises(VaultDir, include_folders)
          /\ ~filter_files_since_raises(list_markdown_files(vault), since_dt)
          /\ target_files' = filter_files_since(list_markdown_files(vault), vault, since_dt)
          /\ changed' = FALSE /\ seen' = vault
          /\ prev' = [prev EXCEPT !.quiet = ~changed]
          /\ IF EmptyBatch(target_files') THEN Return(2)
             ELSE IF DryRunStops(dry_run) THEN Return(0)
             ELSE pc' = "create_client" /\ UNCHANGED <<result, exc>>
       \/ /\ Fault
          /\ Raise("OSError")
          /\ UNCHANGED <<target_files, changed, seen, prev>>
    /\ UNCHANGED <<clock, disk, inputs, interrupted, state, since_dt, i,
                   per_note_summaries, mtime_ns, cache_key, summary, pre, origin, calls, outcome,
                   counters>>
    /\ UNCHANGED aux

\* Step 5: create_llm_client; a missing API key is ValueError
CreateClient ==
    /\ pc = "create_client" /\ ~interrupted
    /\ \/ /\ NoFault
          /\ calls' = [calls EXCEPT !.client = 1]
          /\ IF target_files = <<>>
             THEN i' = i /\ (IF AllFailed(per_note_summaries) THEN Return(1)
                            ELSE pc' = "rollup" /\ UNCHANGED <<result, exc>>)
             ELSE pc' = "item" /\ i' = 1 /\ UNCHANGED <<result, exc>>
       \/ /\ Fault
          /\ Raise("ValueError")
          /\ UNCHANGED <<calls, i>>
    /\ UNCHANGED <<clock, disk, inputs, interrupted, state, since_dt, target_files,
                   per_note_summaries, mtime_ns, cache_key, summary, pre, origin, outcome, changed, seen,
                   prev, counters>>
    /\ UNCHANGED aux

\* the loop moves to the next candidate; after the last one an empty
\* aggregate is status 1
NextCandidate(agg) ==
    /\ per_note_summaries' = agg
    /\ IF i < Len(target_files)
       THEN i' = i + 1 /\ pc' = "item" /\ UNCHANGED <<result, exc>>
       ELSE /\ i' = i
            /\ IF AllFailed(agg) THEN Return(1)
               ELSE pc' = "rollup" /\ UNCHANGED <<result, exc>>

\* an exception inside the try block of the loop body
ItemFail(kind) ==
    IF ItemHandler(kind) = "skip"
    THEN /\ outcome' = Append(outcome, kind)
         /\ NextCandidate(per_note_summaries)
    ELSE /\ Raise(kind)
         /\ outcome' = Append(outcome, kind)
         /\ UNCHANGED <<i, per_note_summaries>>

\* a lookup that is made whatever the flag says
cache_enabled_Always(flag) == TRUE

\* `if not no_cache:` before load_cache
cache_enabled(flag) == ~flag

\* Step 6, the cache lookup: stat, make_cache_key, load_cache
Item ==
    /\ pc = "item" /\ ~interrupted
    /\ LET p == target_files[i] IN
       IF vault[p] = None
       THEN ItemFail("OSError") /\ UNCHANGED <<mtime_ns, cache_key>>
       ELSE LET key == make_cache_key(p, vault[p])
                cached == load_cache(cache, key)
            IN /\ mtime_ns' = vault[p]
               /\ cache_key' = key
               /\ IF cache_enabled(no_cache) /\ load_cache_raises(cache, key)
                  THEN ItemFail("ValueError")
                  ELSE IF cache_enabled(no_cache) /\ Truthy(cached)
                  THEN /\ outcome' = Append(outcome, "hit")
                       /\ NextCandidate(Aggregate(per_note_summaries, cached))
                  ELSE /\ pc' = "summarize"
                       /\ UNCHANGED <<result, exc, i, per_note_summaries, outcome>>
    /\ UNCHANGED <<clock, disk, inputs, interrupted, state, since_dt, target_files,
                   summary, pre, origin, calls, changed, seen, prev, counters, faults>>
    /\ UNCHANGED aux

\* Step 6, the miss: read_text, summarize_note, the path and mtime_utc stamps
Summarize ==
    /\ pc = "summarize" /\ ~interrupted
    /\ LET p == target_files[i] IN
       IF vault[p] = None
       THEN ItemFail("OSError") /\ UNCHANGED <<summary, calls, faults>>
       ELSE \E r1 \in Responses, r2 \in Responses :
            LET o == summarize_note(r1, r2) IN
            /\ IF r1 \in {"full", "notags"} THEN NoFault ELSE Fault
            /\ calls' = [calls EXCEPT !.llm = @ + o.n]
            /\ IF o.exc # "none"
               THEN ItemFail(o.exc) /\ UNCHANGED summary
               ELSE /\ summary' = [path |-> p, mtime_utc |-> vault[p], tags |-> o.tags]
                    /\ pc' = "save_cache"
                    /\ UNCHANGED <<result, exc, i, per_note_summaries, outcome>>
    /\ UNCHANGED <<clock, disk, inputs, interrupted, state, since_dt, target_files,
                   mtime_ns, cache_key, pre, origin, changed, seen, prev, counters>>
    /\ UNCHANGED aux

\* save_cache: mkdir and open(cache_file, "w")
SaveCacheOpen ==
    /\ pc = "save_cache" /\ ~interrupted
    /\ \/ /\ NoFault
          /\ cache' = save_cache_open(cache, cache_key)
          /\ pc' = "cache_dump"
          /\ UNCHANGED <<result, exc, i, per_note_summaries, outcome>>
       \/ /\ Fault
          /\ ItemFail("OSError")
          /\ UNCHANGED cache
    /\ UNCHANGED <<clock, vault, stateFile, tmpFile, digest, inputs, interrupted,
                   state, since_dt, target_files, mtime_ns, cache_key, summary, pre, origin, calls,
                   changed, seen, prev, counters>>
    /\ UNCHANGED aux

\* save_cache: json.dump and close, then per_note_summaries.append(summary)
SaveCacheDump ==
    /\ pc = "cache_dump" /\ ~interrupted
    /\ \/ /\ NoFault
          /\ cache' = save_cache_dump(cache, cache_key, summary)
          /\ origin' = [origin EXCEPT ![cache_key] = <<target_files[i], mtime_ns>>]
          /\ outcome' = Append(outcome, "produced")
          /\ NextCandidate(Aggregate(per_note_summaries, summary))
       \/ /\ Fault
          /\ ItemFail("OSError")
          /\ UNCHANGED <<cache, origin>>
    /\ UNCHANGED <<clock, vault, stateFile, tmpFile, digest, inputs, interrupted,
                   state, since_dt, target_files, mtime_ns, cache_key, summary, pre,
                   calls, changed, seen, prev, counters>>
    /\ UNCHANGED aux

\* create_rollup: summary.get on an element that is no dict
create_rollup_raises(summaries) ==
    \E k \in 1..Len(summaries) : summaries[k] = NonObject

\* Step 7: create_rollup, one call of the client
Rollup ==
    /\ pc = "rollup" /\ ~interrupted
    /\ IF create_rollup_raises(per_note_summaries)
       THEN Raise("AttributeError") /\ UNCHANGED <<calls, faults>>
       ELSE /\ calls' = [calls EXCEPT !.llm = @ + 1]
            /\ \/ NoFault /\ pc' = "write" /\ UNCHANGED <<result, exc>>
               \/ Fault /\ Raise("APIError")
    /\ UNCHANGED <<clock, disk, inputs, interrupted, locals, pre, origin, outcome, changed, seen,
                   prev, counters>>
    /\ UNCHANGED aux

\* a writer failure that is swallowed: the run goes on to save the checkpoint
WriterFailed_Swallowed == pc' = "save_state" /\ UNCHANGED <<result, exc>>

\* write_digest_note raises: the exception reaches the outer handler
WriterFailed == Raise("OSError")

\* Step 8: format_digest_markdown and write_digest_note
Write ==
    /\ pc = "write" /\ ~interrupted
    /\ IF format_digest_markdown_raises(per_note_summaries)
       THEN Raise("IndexError") /\ UNCHANGED <<digest, calls, faults>>
       ELSE IF write_digest_note_raises(VaultDir, digest_folder)
       THEN /\ calls' = [calls EXCEPT !.writer = @ + 1]
            /\ Raise("ValueError")
            /\ UNCHANGED <<digest, faults>>
       ELSE \/ /\ NoFault
               /\ digest' = write_digest_note(per_note_summaries, clock)
               /\ calls' = [calls EXCEPT !.writer = @ + 1, !.wrote = @ + 1]
               /\ pc' = "save_state"
               /\ UNCHANGED <<result, exc>>
            \/ /\ Fault
               /\ calls' = [calls EXCEPT !.writer = @ + 1]
               /\ WriterFailed
               /\ UNCHANGED digest
    /\ UNCHANGED <<clock, vault, stateFile, tmpFile, cache, inputs, interrupted,
                   locals, pre, origin, outcome, changed, seen, prev, counters>>
    /\ UNCHANGED aux

\* Step 9: state["last_run_iso"] = now; save_state creates its temporary file
SaveStateOpen ==
    /\ pc = "save_state" /\ ~interrupted
    /\ state' = new_checkpoint(state, clock)
    /\ calls' = [calls EXCEPT !.save = @ + 1]
    /\ \/ /\ NoFault
          /\ stateFile' = save_state_open(stateFile, tmpFile)[1]
          /\ tmpFile' = save_state_open(stateFile, tmpFile)[2]
          /\ pc' = "save_dump"
          /\ UNCHANGED <<result, exc>>
       \/ /\ Fault
          /\ Raise("OSError")
          /\ UNCHANGED <<stateFile, tmpFile>>
    /\ UNCHANGED <<clock, vault, cache, digest, inputs, interrupted, since_dt,
                   target_files, i, per_note_summaries, mtime_ns, cache_key, summary, pre, origin,
                   outcome, changed, seen, prev, counters>>
    /\ UNCHANGED aux

\* save_state: json.dump into the temporary file
SaveStateDump ==
    /\ pc = "save_dump" /\ ~interrupted
    /\ \/ /\ NoFault
          /\ stateFile' = save_state_dump(stateFile, tmpFile, state)[1]
          /\ tmpFile' = save_state_dump(stateFile, tmpFile, state)[2]
          /\ pc' = "save_replace"
          /\ UNCHANGED <<result, exc>>
       \/ /\ Fault
          /\ Raise("OSError")
          /\ UNCHANGED <<stateFile, tmpFile>>
    /\ UNCHANGED <<clock, vault, cache, digest, inputs, interrupted, locals, ghosts,
                   counters>>
    /\ UNCHANGED aux

\* save_state: the rename; then Step 10, the report, and return 0
SaveStateReplace ==
    /\ pc = "save_replace" /\ ~interrupted
    /\ \/ /\ NoFault
          /\ stateFile' = save_state_replace(stateFile, tmpFile)[1]
          /\ tmpFile' = save_state_replace(stateFile, tmpFile)[2]
          /\ Return(0)
       \/ /\ Fault
          /\ Raise("OSError")
          /\ UNCHANGED <<stateFile, tmpFile>>
    /\ UNCHANGED <<clock, vault, cache, digest, inputs, interrupted, locals, ghosts,
                   counters>>
    /\ UNCHANGED aux

Next ==
    \/ Tick
    \/ \E p \in Paths : Touch(p)
    \/ \E p \in Paths : Delete(p)
    \/ Interrupt
    \/ StartRun
    \/ LoadState
    \/ GetSince
    \/ Discover
    \/ CreateClient
    \/ Item
    \/ Summarize
    \/ SaveCacheOpen
    \/ SaveCacheDump
    \/ Rollup
    \/ Write
    \/ SaveStateOpen
    \/ SaveStateDump
    \/ SaveStateReplace

Spec == Init /\ [][Next]_vars

SpecForeign == InitForeign /\ [][Next]_vars

SpecBoundary == InitBoundary /\ [][Next]_vars

\* ------------------------------------------------- write_digest_note
\* the ways the vault can be named: its path, a relative path, a symbolic link
VaultPaths == {VaultDir, <<"v">>, <<"/", "vl">>}

\* folder strings: Digests, x/y, a name with two dots in it, a link out of
\* the vault, ../out, /out
DigestFolders ==
    {<<"Digests">>, <<"x", "y">>, <<"a..b">>, <<"lnk">>, <<"..", "out">>,
     <<"/", "out">>}

Contents == {"one", "two"}

\* write_digest_note(vault_path, digest_folder, digest_content, date)
WriteDigestNote(vp, folder, content, date) ==
    /\ IF write_digest_note_raises(vp, folder)
       THEN /\ wcall' = [vault_path |-> vp, digest_folder |-> folder,
                         content |-> content, date |-> date,
                         exc |-> "ValueError", replaced |-> "none"]
            /\ UNCHANGED <<dirs, notes>>
       ELSE LET d == digest_dir(vp, folder)
                name == digest_filename(date)
                old == {f \in notes : f.dir = d /\ f.name = name}
            IN /\ dirs' = mkdir(dirs, d)
               /\ notes' = write_text(notes, d, name, content)
               /\ wcall' = [vault_path |-> vp, digest_folder |-> folder,
                            content |-> content, date |-> date, exc |-> "none",
                            replaced |-> IF old = {} THEN "none"
                                         ELSE (CHOOSE f \in old : TRUE).content]
    /\ UNCHANGED <<clock, disk, inputs, control, locals, ghosts, counters, faults,
                   scanner, llm>>

InitWriter ==
    /\ Boot(NoCheckpoint, None, EmptyCache)
    /\ WriterIdle /\ ScannerIdle /\ ClientIdle

NextWriter ==
    \E vp \in VaultPaths, folder \in DigestFolders, content \in Contents,
       date \in Times :
        WriteDigestNote(vp, folder, content, date)

SpecWriter == InitWriter /\ [][NextWriter]_vars

\* ---------------------------------------------------- scanner.py alone
\* allow-lists: none, a, a twice, a and a/b, a link to a, and lists with an
\* entry outside the vault (by "..", by a link, by an absolute path)
IncludeLists ==
    {<<>>, <<<<"a">>>>, <<<<"a">>, <<"a">>>>, <<<<"a">>, <<"a", "b">>>>,
     <<<<"ina">>>>, <<<<"a">>, <<"..", "out">>>>, <<<<"a">>, <<"lnk">>>>,
     <<<<"/", "out">>>>}

\* exclusion patterns: none, the folder a/priv, the file a/x.md
ExcludeLists == {<<>>, <<<<"a", "priv">>>>, <<<<"a", "x.md">>>>}

Kinds == {"regular", "empty", "symlink"}

\* all_files = list_markdown_files(vault_path, include_folders, exclude_globs)
ListMarkdownFiles ==
    /\ sret.pc = "list"
    /\ IF list_markdown_files_raises(scall.vault_path, scall.include_folders)
       THEN sret' = [sret EXCEPT !.pc = "done", !.exc = "ValueError"]
       ELSE sret' = [sret EXCEPT !.pc = "filter",
                        !.all_files = list_markdown_files_in(tree, scall.vault_path,
                                          scall.include_folders, scall.exclude_globs)]
    /\ UNCHANGED <<clock, disk, inputs, control, locals, ghosts, counters, faults,
                   writer, tree, scall, llm>>

\* target_files = filter_files_since(all_files, since_dt)
FilterFilesSince ==
    /\ sret.pc = "filter"
    /\ LET files == sret.all_files
           mt == [path \in {files[k] : k \in 1..Len(files)} |->
                     tree[file_at(path)].mtime]
       IN sret' = [sret EXCEPT !.pc = "done",
                      !.target_files = filter_files_since(files, mt, scall.since_dt)]
    /\ UNCHANGED <<clock, disk, inputs, control, locals, ghosts, counters, faults,
                   writer, tree, scall, llm>>

InitScanner ==
    /\ Boot(NoCheckpoint, None, EmptyCache)
    /\ WriterIdle /\ ClientIdle
    /\ \E kind \in Kinds, mt \in [Files -> Times] :
          tree = [f \in Files |->
                     [kind |-> IF f = 1 THEN kind ELSE "regular", mtime |-> mt[f]]]
    /\ \E vp \in VaultPaths, inc \in IncludeLists, exc_globs \in ExcludeLists,
          cutoff \in Times :
          scall = [vault_path |-> vp, include_folders |-> inc,
                   exclude_globs |-> exc_globs, since_dt |-> cutoff]
    /\ sret = [NoFiles EXCEPT !.pc = "list"]

NextScanner == ListMarkdownFiles \/ FilterFilesSince

SpecScanner == InitScanner /\ [][NextScanner]_vars

\* ---------------------------------- summarize_note and the client alone
\* for attempt in range(3)
MaxAttempts == 3

\* what one pass of the loop gets from the backend: a response or an exception
BackendOutcomes == (Responses \ {"error"}) \cup BackendErrors

\* llm_call is over, with the response it returned or "error" when it raised
\* err: summarize_note makes its second call, returns or raises
AfterCall(log, answers, err) ==
    IF Len(answers) = 1 /\ summarize_note(answers[1], "full").n = 2
    THEN llm' = [llm EXCEPT !.attempt = 0, !.log = Append(log, <<>>),
                            !.answers = answers]
    ELSE LET o == summarize_note(answers[1], answers[Len(answers)]) IN
         llm' = [llm EXCEPT !.pc = "done", !.log = log, !.answers = answers,
                            !.exc = IF o.exc = "APIError" THEN err ELSE o.exc,
                            !.tags = o.tags]

\* one pass of the loop of call_claude or call_local
Attempt ==
    /\ llm.pc = "call"
    /\ \E o \in BackendOutcomes :
          LET call == Len(llm.log)
              log == [llm.log EXCEPT ![call] = Append(@, o)]
          IN IF o \notin BackendErrors
             THEN AfterCall(log, Append(llm.answers, o), "none")
             ELSE IF on_error(llm.backend, llm.attempt, o) = "raise"
             THEN AfterCall(log, Append(llm.answers, "error"), o)
             ELSE IF llm.attempt + 1 < MaxAttempts
             THEN llm' = [llm EXCEPT !.attempt = @ + 1, !.log = log]
             ELSE AfterCall(log, Append(llm.answers, "error"), "RuntimeError")
    /\ UNCHANGED <<clock, disk, inputs, control, locals, ghosts, counters, faults,
                   writer, scanner>>

InitClient ==
    /\ Boot(NoCheckpoint, None, EmptyCache)
    /\ WriterIdle /\ ScannerIdle
    /\ \E backend \in Backends :
          llm = [NoLlm EXCEPT !.pc = "call", !.backend = backend, !.log = <<<<>>>>]

NextClient == Attempt

SpecClient == InitClient /\ [][NextClient]_vars

\* ------------------------------------------------------------- claims
\* C1: in every run the checkpoint is saved at most once, and only after
\* write_digest_note has returned in that run; when write_digest_note raises,
\* the checkpoint file keeps the value it had when the run started and the
\* run returns 1
C1_CheckpointOnlyAfterWrite ==
    /\ calls.save <= 1
    /\ calls.save = 1 => calls.wrote = 1
    /\ stateFile # pre.stateFile => calls.wrote = 1
    /\ calls.writer > calls.wrote =>
          /\ pc = "done" /\ result = 1
          /\ calls.save = 0
          /\ stateFile = pre.stateFile

\* the writer raised in a run that had a checkpoint to keep
C1_WriterRaised ==
    /\ calls.writer = 1 /\ calls.wrote = 0
    /\ exc = "OSError" /\ result = 1
    /\ pre.stateFile = JsonCheckpoint(0)

\* C2: a candidate whose processing raises an exception other than
\* ValueError, KeyError, TypeError and OSError is the last one processed: the
\* run ends there with status 1, the writer is not invoked and the
\* checkpoint is not saved
C2_UnrecoverableAborts ==
    \A j \in 1..Len(outcome) :
        outcome[j] \in ExceptionKinds \ Recoverable =>
            /\ j = Len(outcome) /\ i = j
            /\ pc = "done" /\ result = 1 /\ exc = outcome[j]
            /\ calls.writer = 0 /\ calls.save = 0
            /\ stateFile = pre.stateFile /\ tmpFile = NoCheckpoint

\* the first of two candidates raised an unrecoverable exception
C2_AbortedBeforeSecond ==
    /\ Len(target_files) = 2 /\ Len(outcome) = 1
    /\ outcome[1] \in ExceptionKinds \ Recoverable
    /\ pc = "done"

\* C4: a run whose filtered list is empty returns 2 and leaves the checkpoint
\* file, the cache and the digest as they were, without creating the client
\* or invoking the transformer; and 2 is returned for no other reason
C4_EmptyBatchReturns2 ==
    /\ (/\ pc \notin {"idle", "load_state", "get_since", "discover"}
        /\ exc = "none"
        /\ target_files = <<>>) => result = 2
    /\ result = 2 =>
          /\ pc = "done" /\ target_files = <<>>
          /\ stateFile = pre.stateFile /\ tmpFile = NoCheckpoint
          /\ cache = pre.cache
          /\ digest = pre.digest
          /\ calls = NoCalls

\* status 2 with a checkpoint, a cache entry and a digest on disk
C4_NothingNew ==
    /\ result = 2
    /\ pre.stateFile.kind = "json"
    /\ pre.digest.exists
    /\ \E k \in Keys : pre.cache[k].kind = "json"

\* C5: when the list is not empty and every candidate failed with a
\* recoverable exception, the run returns 1 (not raised, and not 2), the
\* writer is not invoked and the checkpoint is unchanged
C5_AllFailedReturns1 ==
    (/\ target_files # <<>>
     /\ Len(outcome) = Len(target_files)
     /\ \A j \in 1..Len(outcome) : outcome[j] \in Recoverable) =>
        /\ pc = "done" /\ result = 1 /\ exc = "none"
        /\ calls.writer = 0 /\ calls.save = 0
        /\ stateFile = pre.stateFile /\ tmpFile = NoCheckpoint
        /\ digest = pre.digest

\* two candidates, both dropped
C5_BothDropped ==
    /\ Len(target_files) = 2 /\ Len(outcome) = 2
    /\ \A j \in 1..2 : outcome[j] \in Recoverable

\* C6: with dry_run set a run writes no cache entry, no checkpoint and no
\* digest, creates no client and invokes no transformer, and ends at the
\* candidate list whatever the list is
C6_DryRunTouchesNothing ==
    (dry_run /\ pc # "idle") =>
        /\ pc \in {"load_state", "get_since", "discover", "done"}
        /\ cache = pre.cache
        /\ stateFile = pre.stateFile /\ tmpFile = NoCheckpoint
        /\ digest = pre.digest
        /\ calls = NoCalls
        /\ outcome = <<>> /\ per_note_summaries = <<>>

\* a dry run over two candidates that are not in the cache
C6_DryRunWithCandidates ==
    /\ dry_run /\ pc = "done" /\ result = 0
    /\ Len(target_files) = 2
    /\ \A k \in Keys : cache[k].kind = "missing"

\* C7: a run that ended returned 0, 1 or 2; an exception raised by any step
\* ends the run with status 1 and is never propagated to the caller
C7_StatusIs012 ==
    /\ pc = "done" => result \in {0, 1, 2}
    /\ exc # "none" => pc = "done" /\ result = 1
    /\ result # Propagated

\* an exception outside the recoverable kinds, raised after the loop
C7_LateExceptionCaught ==
    /\ exc \in ExceptionKinds \ Recoverable
    /\ Len(outcome) = Len(target_files) /\ per_note_summaries # <<>>
    /\ result = 1

\* the candidates processed so far that were served or summarised, in order
RECURSIVE Kept(_)
Kept(k) ==
    IF k = 0 THEN <<>>
    ELSE Kept(k - 1) \o (IF outcome[k] \in {"hit", "produced"}
                         THEN <<target_files[k]>> ELSE <<>>)

\* C3: a recoverable exception drops only the candidate that raised it: the
\* other candidates are still processed, the aggregate holds exactly their
\* outcomes, and when at least one of them succeeded the run writes the
\* digest, advances the checkpoint and returns 0 (unless the rollup call,
\* the writer or the checkpoint save is failed by the environment)
C3_RecoverableDropsOnlyThatCandidate ==
    (/\ \E j \in 1..Len(outcome) : outcome[j] \in Recoverable
     /\ \A j \in 1..Len(outcome) : outcome[j] \notin ExceptionKinds \ Recoverable) =>
        /\ [k \in 1..Len(per_note_summaries) |-> per_note_summaries[k].path]
              = Kept(Len(outcome))
        /\ pc = "done" => Len(outcome) = Len(target_files)
        /\ (/\ pc = "done"
            /\ per_note_summaries # <<>>
            /\ exc \notin {"APIError", "OSError"}) =>
               /\ result = 0
               /\ calls.wrote = 1 /\ digest.content = per_note_summaries
               /\ stateFile = JsonCheckpoint(state.last_run_iso)

\* the candidate the lookup is about to serve: its entry is complete and
\* no_cache is not set
CacheHitReady ==
    /\ pc = "item" /\ ~interrupted /\ ~no_cache
    /\ vault[target_files[i]] # None
    /\ cache[make_cache_key(target_files[i], vault[target_files[i]])].kind = "json"

\* C8: when the entry of a candidate's (path, mtime) key is usable and
\* no_cache is not set, the step that processes the candidate appends the
\* entry to the aggregate, makes no call of the transformer and writes
\* nothing to the cache
C8_CacheHitSkipsTransformer ==
    [][(CacheHitReady /\ (pc' # pc \/ i' # i)) =>
          /\ per_note_summaries' = Append(per_note_summaries,
                load_cache(cache, make_cache_key(target_files[i], vault[target_files[i]])))
          /\ outcome' = Append(outcome, "hit")
          /\ calls' = calls
          /\ cache' = cache]_vars

\* a candidate was served from the cache and the run went on to the rollup
C8_ServedFromCache ==
    /\ pc = "rollup" /\ ~no_cache
    /\ \E j \in 1..Len(outcome) : outcome[j] = "hit"
    /\ calls.llm = 0

\* a run that ended before the checkpoint was advanced left the file alone
CheckpointKept ==
    (interrupted \/ (pc = "done" /\ result # 0)) => stateFile = pre.stateFile

\* the retry serves from the cache what the aborted run had written
ServedFromCache ==
    /\ target_files = prev.target_files
    /\ ~no_cache =>
          \A j \in 1..Len(outcome) :
              target_files[j] \in prev.produced => outcome[j] = "hit"

C10_CheckpointNeverPartial ==
    /\ stateFile.kind # "garbage"
    /\ \/ stateFile = pre.stateFile
       \/ calls.save = 1 /\ stateFile = JsonCheckpoint(state.last_run_iso)
    /\ load_state(stateFile) \in
          {load_state(pre.stateFile), [last_run_iso |-> state.last_run_iso]}

\* the process died while save_state was writing its temporary file
C10_CrashDuringSave ==
    /\ interrupted /\ pc = "save_dump"
    /\ tmpFile.kind = "garbage"
    /\ pre.stateFile = JsonCheckpoint(0)

\* C11: save_cache publishes an entry through a temporary file and an atomic
\* rename: when the process has stopped, at any point of a write or after
\* it, every file <key>.json is as it was when the run started or holds a
\* complete entry, never a part of one
C11_CacheEntryNeverPartial ==
    (interrupted \/ pc = "done") =>
        \A k \in Keys : cache[k] = pre.cache[k] \/ cache[k].kind = "json"

\* the lookup is about to read an entry file that holds no summary object
CorruptEntryReady ==
    /\ pc = "item" /\ ~interrupted /\ ~no_cache
    /\ vault[target_files[i]] # None
    /\ cache[make_cache_key(target_files[i], vault[target_files[i]])].kind
          \in {"garbage", "undecodable", "nonobj"}

\* C12: whatever an existing entry file holds (a truncated text, no JSON,
\* bytes that do not decode, JSON that is no summary object), the lookup is a
\* miss: the step raises nothing, adds nothing to the aggregate and goes on
\* to transform the candidate
C12_CorruptEntryIsMiss ==
    [][(CorruptEntryReady /\ (pc' # pc \/ i' # i)) =>
          /\ pc' = "summarize"
          /\ UNCHANGED <<outcome, per_note_summaries, exc>>]_vars

\* C13: load_state on a state file that is no JSON raises ValueError (an
\* OSError of the read apart): the run does not go on with the first-run
\* state
C13_CorruptCheckpointRaises ==
    [][(/\ pc = "load_state" /\ ~interrupted
        /\ stateFile.kind = "garbage"
        /\ pc' # pc) =>
          /\ exc' \in {"ValueError", "OSError"}
          /\ pc' # "get_since"]_vars

\* C15: the cutoff get_since_datetime returns is the source's timestamp read
\* as UTC when it has no offset, whichever of the three sources it is, so it
\* is timezone-aware and the comparison of filter_files_since raises nothing
C15_CutoffAlwaysAware ==
    /\ ~IsNaive(since_dt)
    /\ exc # "TypeError"
    /\ (pc = "discover" /\ cutoff_source(cfgSince, since, state) # None) =>
          since_dt = AsUtc(cutoff_source(cfgSince, since, state))

C16_EntryNeverRewritten ==
    [][\A k \in Keys : cache[k].kind = "json" => cache'[k] = cache[k]]_vars

\* C17: the stored checkpoint timestamp never decreases, also in a run with a
\* historical caller cutoff, and the checkpoint file changes only in a run
\* that processed every candidate, has a non-empty aggregate and wrote it to
\* the digest
C17_CheckpointMonotone ==
    [][/\ load_state(stateFile').last_run_iso >= load_state(stateFile).last_run_iso
       /\ stateFile' # stateFile =>
             /\ calls.wrote = 1
             /\ Len(outcome) = Len(target_files)
             /\ per_note_summaries # <<>>
             /\ digest.content = per_note_summaries]_vars

\* a run with a cutoff older than the checkpoint advanced the checkpoint
C17_AdvancedAfterHistoricalCutoff ==
    /\ pc = "done" /\ result = 0
    /\ since = 0
    /\ pre.stateFile = JsonCheckpoint(1)
    /\ stateFile = JsonCheckpoint(2)

\* C18: make_cache_key gives different keys to different (path, mtime)
\* pairs; so a candidate is served only an entry written for its own path and
\* its present mtime, and a note whose path or mtime has no entry written for
\* it is a miss and is transformed again, whatever was cached for its earlier
\* mtimes
C18_ChangedNoteIsNeverServedOldEntry ==
    [][/\ \A p, q \in Paths, m, n \in Times :
             make_cache_key(p, m) = make_cache_key(q, n) => (p = q /\ m = n)
       /\ (pc = "item" /\ outcome' = Append(outcome, "hit")) =>
             origin[cache_key'] = <<target_files[i], vault[target_files[i]]>>
       /\ (/\ pc = "item" /\ ~interrupted
           /\ vault[target_files[i]] # None
           /\ \A k \in Keys : origin[k] # <<target_files[i], vault[target_files[i]]>>
           /\ (pc' # pc \/ i' # i)) => pc' = "summarize"]_vars

\* a note that was cached and then saved again is being transformed again
C18_ChangedNoteIsMiss ==
    /\ pc = "summarize" /\ ~no_cache
    /\ vault[target_files[i]] # None
    /\ \E m \in Times :
          /\ m # vault[target_files[i]]
          /\ cache[make_cache_key(target_files[i], m)].kind = "json"

C20_AggregateKeepsDiscoveryOrder ==
    LET paths == [k \in 1..Len(per_note_summaries) |-> per_note_summaries[k].path] IN
    /\ \A a \in 1..Len(paths) : \E x \in 1..Len(target_files) : target_files[x] = paths[a]
    /\ \A a, b \in 1..Len(paths) :
          a < b => \E x, y \in 1..Len(target_files) :
                      x < y /\ target_files[x] = paths[a] /\ target_files[y] = paths[b]
    /\ ~changed =>
          \A x, y \in 1..Len(target_files) :
              x < y => vault[target_files[x]] <= vault[target_files[y]]

\* the older note was served from the cache, the newer one was summarised,
\* and the list is not in directory order
C20_HitThenProduced ==
    /\ target_files = <<2, 1>>
    /\ outcome = <<"hit", "produced">>
    /\ Len(per_note_summaries) = 2

\* C30: whatever text the transformer answers for a candidate, text without
\* JSON or JSON of any type, the malformed answer drops at most that
\* candidate: the exception it raises is not the one that ended the run
C30_MalformedAnswerIsRecoverable ==
    \A j \in 1..Len(outcome) :
        outcome[j] \in {"ValueError", "AttributeError"} => exc # outcome[j]

\* C28: on success the count reported as from the cache is the number of
\* candidates served by a cache hit in this run, and the count reported as
\* summarized is the number freshly produced by the transformer in this run
C28_ReportedCountsAccurate ==
    (pc = "done" /\ result = 0 /\ ~dry_run) =>
        /\ num_cached(per_note_summaries) =
              Cardinality({j \in 1..Len(outcome) : outcome[j] = "hit"})
        /\ num_summarized(per_note_summaries) =
              Cardinality({j \in 1..Len(outcome) : outcome[j] = "produced"})

\* the allow-list or the digest folder of the configuration escapes the vault
BoundaryViolation ==
    \/ list_markdown_files_raises(VaultDir, include_folders)
    \/ write_digest_note_raises(VaultDir, digest_folder)

\* C21: when the allow-list or the digest folder escapes the vault, the run
\* ends with status 1 and has had no side effect: the transformer was not
\* called and no cache entry, digest or checkpoint was written
C21_BoundaryViolationBeforeSideEffects ==
    (BoundaryViolation /\ pc # "idle") =>
        /\ calls.llm = 0
        /\ cache = pre.cache
        /\ digest = pre.digest
        /\ stateFile = pre.stateFile /\ tmpFile = NoCheckpoint
        /\ (pc = "done" /\ ~interrupted) => result = 1

\* the folder string is absolute, has a ".." component, or names a place
\* that is not below the vault once symbolic links are followed
Escapes(vault_path, folder) ==
    \/ folder # <<>> /\ folder[1] = "/"
    \/ \E k \in 1..Len(folder) : folder[k] = ".."
    \/ ~IsPrefix(resolve(vault_path), resolve(join(vault_path, folder)))

\* C22: write_digest_note called with a digest folder that is absolute, has
\* a traversal sequence or resolves outside the vault raises ValueError and
\* has created no directory and written no file; no digest note is ever
\* outside the vault
C22_EscapingFolderRejectedBeforeWrite ==
    [][/\ Escapes(wcall'.vault_path, wcall'.digest_folder) =>
             /\ wcall'.exc = "ValueError"
             /\ dirs' = dirs
             /\ notes' = notes
       /\ \A f \in notes' : IsPrefix(VaultDir, f.dir)]_vars

\* a folder that is a symbolic link out of the vault was rejected after
\* digest notes had been written
C22_SymlinkFolderRejected ==
    /\ wcall.exc = "ValueError"
    /\ wcall.digest_folder = <<"lnk">>
    /\ notes # {}

\* C29: a successful write for a date leaves exactly one digest note for that
\* day in the digest folder, named after the day, holding the content of
\* this write; the other notes are as they were
C29_OneDigestPerDay ==
    [][wcall'.exc = "none" /\ wcall'.date # None =>
          LET d == digest_dir(wcall'.vault_path, wcall'.digest_folder)
              OfDay(f) == f.dir = d /\ f.name = strftime(wcall'.date)
          IN /\ Cardinality({f \in notes' : OfDay(f)}) = 1
             /\ \A f \in notes' : OfDay(f) => f.content = wcall'.content
             /\ {f \in notes' : ~OfDay(f)} = {f \in notes : ~OfDay(f)}]_vars

\* a second write on the same day, at another time of the day and through
\* another name of the vault, replaced the content of the first
C29_SecondWriteSameDay ==
    /\ wcall.exc = "none"
    /\ wcall.date = 1 /\ wcall.content = "two" /\ wcall.replaced = "one"
    /\ wcall.vault_path = <<"/", "vl">>
    /\ Cardinality({f \in notes : f.name = strftime(1)}) = 1

\* how often a path occurs in a list
Count(s, path) == Cardinality({k \in 1..Len(s) : s[k] = path})

\* the file a listed path names was modified no later than the next one's
NonDecreasing(s) ==
    \A j, k \in 1..Len(s) :
        j < k => tree[file_at(s[j])].mtime <= tree[file_at(s[k])].mtime

\* an exclusion pattern names the file the path names or a directory above it
MatchedByExclusion(path) ==
    \E k \in 1..Len(scall.exclude_globs) :
        IsPrefix(resolve(scall.vault_path \o scall.exclude_globs[k]), resolve(path))

\* C23: when an allow-list entry resolves outside the resolved vault,
\* list_markdown_files raises and returns no file, wherever the entry stands
\* in the list
C23_EscapingAllowListRaises ==
    (/\ sret.pc \in {"filter", "done"}
     /\ \E k \in 1..Len(scall.include_folders) :
           ~IsPrefix(resolve(scall.vault_path),
                     resolve(join(scall.vault_path, scall.include_folders[k])))) =>
        /\ sret.pc = "done"
        /\ sret.exc = "ValueError"
        /\ sret.all_files = <<>> /\ sret.target_files = <<>>

\* the second entry leaves the vault through a symbolic link, the first is
\* a folder of the vault with files in it
C23_SecondEntryEscapes ==
    /\ sret.exc = "ValueError"
    /\ scall.include_folders = <<<<"a">>, <<"lnk">>>>
    /\ \A f \in Files : tree[f].kind = "regular"

\* C24: no path list_markdown_files returns is a zero-length file, a
\* symbolic link, a file an exclusion pattern matches or a file below a
\* directory an exclusion pattern matches, however the vault is named
C24_NoIneligibleFileListed ==
    \A k \in 1..Len(sret.all_files) :
        /\ tree[file_at(sret.all_files[k])].kind = "regular"
        /\ ~MatchedByExclusion(sret.all_files[k])

\* C25: list_markdown_files returns every eligible file below a search root
\* once and no file twice
C25_EachFileOnce ==
    sret.pc \in {"filter", "done"} /\ sret.exc = "none" =>
        /\ \A j, k \in 1..Len(sret.all_files) :
              j # k => file_at(sret.all_files[j]) # file_at(sret.all_files[k])
        /\ \A f \in Files :
              (/\ tree[f].kind = "regular"
               /\ ~MatchedByExclusion(RealPath(f))
               /\ \E r \in 1..Len(search_roots(scall.vault_path, scall.include_folders)) :
                     IsPrefix(resolve(search_roots(scall.vault_path,
                                                   scall.include_folders)[r]),
                              RealPath(f))) =>
                  \E k \in 1..Len(sret.all_files) : file_at(sret.all_files[k]) = f

\* C26: filter_files_since keeps every occurrence of a file modified after
\* the cutoff and nothing else; a file modified at the cutoff is dropped
C26_KeepsExactlyLaterFiles ==
    sret.pc = "done" /\ sret.exc = "none" =>
        /\ \A k \in 1..Len(sret.target_files) :
              Count(sret.all_files, sret.target_files[k]) > 0
        /\ \A k \in 1..Len(sret.all_files) :
              LET path == sret.all_files[k] IN
              Count(sret.target_files, path) =
                  IF tree[file_at(path)].mtime > scall.since_dt
                  THEN Count(sret.all_files, path) ELSE 0

\* one file was modified before the cutoff, one at it and one after it
C26_BeforeAtAfter ==
    /\ sret.pc = "done" /\ scall.since_dt = 1
    /\ Len(sret.all_files) = 3 /\ Len(sret.target_files) = 1
    /\ {tree[f].mtime : f \in Files} = {0, 1, 2}

\* C27: the list list_markdown_files returns and the list
\* filter_files_since returns are in non-decreasing order of modification
\* time
C27_ListsOldestFirst ==
    /\ NonDecreasing(sret.all_files)
    /\ NonDecreasing(sret.target_files)

\* three files whose order by modification time is the reverse of the
\* directory's, two of them after the cutoff
C27_ReverseOfDirectoryOrder ==
    /\ sret.pc = "done"
    /\ Len(sret.all_files) = 3 /\ Len(sret.target_files) = 2
    /\ tree[1].mtime = 2 /\ tree[2].mtime = 1 /\ tree[3].mtime = 0
    /\ file_at(sret.target_files[1]) = 2

\* C31: format_digest_markdown returns a document for every aggregate of
\* summaries summarize_note can return, a summary whose tags are the default
\* empty list included: Step 8 never ends a run with the renderer's exception
C31_RenderHandlesDefaultTags ==
    /\ pc = "write" => ~format_digest_markdown_raises(per_note_summaries)
    /\ exc # "IndexError"

\* C32: summarize_note calls the client at most twice for a note; it makes
\* the second call exactly when the first call returned a response no JSON
\* can be extracted from; when the second response is unparseable too it
\* raises ValueError and returns no summary
C32_AtMostTwoCallsThenValueError ==
    /\ Len(llm.log) <= 2 /\ Len(llm.answers) <= 2
    /\ Len(llm.log) = 2 <=> (Len(llm.answers) >= 1 /\ llm.answers[1] = "garbage")
    /\ llm.pc = "done" /\ llm.answers = <<"garbage", "garbage">> =>
          llm.exc = "ValueError" /\ llm.tags = "none"
    /\ llm.pc = "done" /\ llm.exc = "ValueError" =>
          llm.answers = <<"garbage", "garbage">>

\* both responses were unparseable
C32_TwoUnparseableResponses ==
    /\ llm.pc = "done"
    /\ llm.answers = <<"garbage", "garbage">>
    /\ Len(llm.log[1]) = 1 /\ Len(llm.log[2]) = 1

\* the passes of the call c of the client, and whether that call is over
TriesOf(c) == llm.log[c]
CallOver(c) == Len(llm.answers) >= c

\* C33: a call of the Claude or the local client makes at most 3 attempts:
\* every attempt before the last one raised an error, the response of the
\* first attempt that succeeds is what the call returns, a rate limit,
\* connection or timeout error on attempt 1 or 2 is followed by another
\* attempt, and after the third attempt the call has returned or raised
C33_AtMostThreeAttempts ==
    \A c \in 1..Len(llm.log) :
        /\ Len(TriesOf(c)) <= 3
        /\ \A k \in 1..Len(TriesOf(c)) :
              /\ k < Len(TriesOf(c)) => TriesOf(c)[k] \in BackendErrors
              /\ TriesOf(c)[k] \notin BackendErrors =>
                    CallOver(c) /\ llm.answers[c] = TriesOf(c)[k]
              /\ /\ TriesOf(c)[k] \in {"RateLimitError", "APIConnectionError",
                                       "APITimeoutError"}
                 /\ k < 3 /\ CallOver(c)
                 => k < Len(TriesOf(c))
        /\ Len(TriesOf(c)) = 3 => CallOver(c)

\* the third attempt succeeded after a rate limit and a timeout
C33_ThirdAttemptSucceeds ==
    /\ llm.pc = "done"
    /\ llm.log = <<<<"RateLimitError", "APITimeoutError", "full">>>>
    /\ llm.answers = <<"full">>

\* C34: the exception a call of the client ends with is the error of its
\* last attempt, never the RuntimeError after the loop; an error the client
\* does not retry (for the Claude client anything but a rate limit,
\* connection or timeout error, for the local client a status error whose
\* code is not 429, 500 or 503) ends the call at the attempt that raised it
C34_LastErrorReraised ==
    /\ llm.exc # "RuntimeError"
    /\ \A c \in 1..Len(llm.log) :
          LET n == Len(TriesOf(c)) IN
          /\ CallOver(c) /\ llm.answers[c] = "error" =>
                /\ llm.pc = "done" /\ c = Len(llm.log)
                /\ llm.exc = TriesOf(c)[n]
          /\ \A k \in 1..n :
                LET e == TriesOf(c)[k] IN
                /\ e \in BackendErrors
                /\ IF llm.backend = "claude"
                   THEN e \notin {"RateLimitError", "APIConnectionError",
                                  "APITimeoutError"}
                   ELSE IsStatusError(e) /\ status_code(e) \notin {429, 500, 503}
                => k = n /\ CallOver(c) /\ llm.exc = e

\* the local client re-raised the timeout of its third attempt
C34_ThirdAttemptTimesOut ==
    /\ llm.pc = "done" /\ llm.backend = "local"
    /\ llm.log = <<<<"Status503", "RateLimitError", "APITimeoutError">>>>
    /\ llm.exc = "APITimeoutError"

\* C35: in a run with no_cache set no candidate is served from the cache:
\* whatever the cache holds, every candidate whose stat succeeds goes to the
\* transformer, and the summary produced for it is written to the cache under
\* the key computed for the candidate
C35_NoCacheAlwaysTransforms ==
    /\ [](no_cache => \A j \in 1..Len(outcome) : outcome[j] # "hit")
    /\ [][/\ no_cache /\ pc = "item" /\ ~interrupted
          /\ ~UNCHANGED <<pc, i, outcome>>
          => \/ /\ vault[target_files[i]] = None
                /\ outcome' = Append(outcome, "OSError")
             \/ /\ pc' = "summarize"
                /\ cache_key' = make_cache_key(target_files[i], vault[target_files[i]])
                /\ outcome' = outcome]_vars
    /\ [][/\ no_cache /\ pc = "cache_dump" /\ ~interrupted
          /\ outcome' = Append(outcome, "produced")
          => /\ cache'[cache_key] = JsonFile(summary)
             /\ per_note_summaries' = Append(per_note_summaries, summary)]_vars

\* a run with no_cache produced a summary for a note and wrote it over the
\* entry the cache already had under the note's key
C35_EntryIgnoredAndRewritten ==
    /\ no_cache
    /\ outcome # <<>> /\ outcome[Len(outcome)] = "produced"
    /\ pre.cache[cache_key].kind = "json"
    /\ cache[cache_key] = JsonFile(summary)

\* C36: every entry of the cache that is stored under the key of a note and
\* a modification time m carries that note as its path and m as its
\* mtime_utc, also when the note is saved by another process during the run
C36_EntryCarriesTheMtimeOfItsKey ==
    \A k \in Keys :
        cache[k].kind = "json" /\ origin[k] # <<>> =>
            LET e == loads(cache[k].data) IN
            /\ k = make_cache_key(origin[k][1], origin[k][2])
            /\ e.path = origin[k][1]
            /\ e.mtime_utc = origin[k][2]

\* a run without a checkpoint, without the caller's and without a configured
\* override
FirstRunDefault ==
    /\ runs > 0
    /\ pre.stateFile.kind = "missing"
    /\ since = None /\ cfgSince = None

SelectedByCheckpoint ==
    LET ck == load_state(stateFile).last_run_iso
        files == filter_files_since(list_markdown_files(vault), vault, ck)
    IN {files[k] : k \in 1..Len(files)}

\* C38: after a run that returned 0, a candidate the run dropped on a
\* recoverable exception has a modification time that is not after the
\* checkpoint the run saved, and as long as the note is not saved again a
\* run that takes its cutoff from the checkpoint does not select it
C38_DroppedCandidateNotRetried ==
    pc = "done" /\ result = 0 /\ ~dry_run =>
        \A j \in 1..Len(outcome) :
            outcome[j] \in Recoverable =>
                LET p == target_files[j] IN
                /\ stateFile.kind = "json"
                /\ seen[p] <= stateFile.last_run_iso
                /\ vault[p] = seen[p] => p \notin SelectedByCheckpoint

\* the transformer's answers for the first of two candidates could not be
\* parsed, the second was summarised and the run returned 0
C38_DroppedThenSuccess ==
    /\ pc = "done" /\ result = 0 /\ ~dry_run
    /\ outcome = <<"ValueError", "produced">>
    /\ vault[target_files[1]] = seen[target_files[1]]

\* the note p was saved or created after the last discovery stat-ed it
SavedAfterDiscovery(p) == vault[p] # None /\ vault[p] # seen[p]

\* the aggregate of the run holds a summary of the note p as it is now
NewVersionInAggregate(p) ==
    \E k \in 1..Len(per_note_summaries) :
        /\ per_note_summaries[k].path = p
        /\ per_note_summaries[k].mtime_utc = vault[p]

\* C39 (as stated): after a run that returned 0, a note that was saved after
\* discovery and not after the checkpoint is not in the aggregate of that run
\* and is not selected by a run that takes its cutoff from the checkpoint
C39_SavedDuringRunIsLeftOut ==
    pc = "done" /\ result = 0 /\ ~dry_run =>
        \A p \in Paths :
            SavedAfterDiscovery(p) /\ vault[p] <= stateFile.last_run_iso =>
                /\ ~NewVersionInAggregate(p)
                /\ p \notin SelectedByCheckpoint

\* C39 (amended): the aggregate of a run holds summaries of candidates of
\* that run only; when the run takes the time of its checkpoint, every note
\* saved after discovery has a modification time that is not after it, and
\* after a run that returned 0 such a note is not selected by a run that takes
\* its cutoff from the saved checkpoint
C39_SavedDuringRunIsNeverSelected ==
    /\ [](\A k \in 1..Len(per_note_summaries) :
             \/ per_note_summaries[k] = NonObject
             \/ \E j \in 1..Len(target_files) :
                   target_files[j] = per_note_summaries[k].path)
    /\ [][pc = "save_state" /\ ~interrupted /\ pc' # pc
          => \A p \in Paths :
                SavedAfterDiscovery(p) => vault[p] <= state'.last_run_iso]_vars
    /\ [](pc = "done" /\ result = 0 /\ ~dry_run
          => /\ stateFile = JsonCheckpoint(state.last_run_iso)
             /\ \A p \in Paths :
                   SavedAfterDiscovery(p) /\ vault[p] <= state.last_run_iso
                   => p \notin SelectedByCheckpoint)

\* a candidate was saved again after the run had summarised it: the run
\* returned 0, its aggregate holds the older version and the checkpoint does
\* not select the note
C39_SavedAfterItWasSummarised ==
    /\ pc = "done" /\ result = 0 /\ ~dry_run
    /\ \E p \in Paths :
          /\ SavedAfterDiscovery(p) /\ vault[p] <= stateFile.last_run_iso
          /\ \E k \in 1..Len(per_note_summaries) :
                /\ per_note_summaries[k].path = p
                /\ per_note_summaries[k].mtime_utc = seen[p]
          /\ p \notin SelectedByCheckpoint

\* `mtime > since_dt` of filter_files_since for the digest note in the vault
DigestIsAfter(cutoff) ==
    digest.exists /\ IsAfter("digest", [f \in {"digest"} |-> digest.mtime], cutoff)

\* C40: the digest note a run that returned 0 wrote is not later than the
\* checkpoint that run saved; as long as the note is not written again it is
\* not later than any checkpoint saved afterwards, and a run that takes its
\* cutoff from the checkpoint resolves a cutoff the note is not later than,
\* so that filter_files_since does not keep it
C40_DigestNotAfterCheckpoint ==
    /\ [](pc = "done" /\ result = 0 /\ ~dry_run =>
             /\ digest.exists /\ stateFile.kind = "json"
             /\ ~DigestIsAfter(stateFile.last_run_iso))
    /\ [][/\ digest' = digest
          /\ stateFile.kind = "json" /\ ~DigestIsAfter(stateFile.last_run_iso)
          => stateFile'.kind = "json" /\ ~DigestIsAfter(stateFile'.last_run_iso)]_vars
    /\ [][/\ pc = "get_since" /\ ~interrupted /\ pc' = "discover"
          /\ since = None /\ cfgSince = None
          /\ stateFile.kind = "json" /\ ~DigestIsAfter(stateFile.last_run_iso)
          => since_dt' = stateFile.last_run_iso /\ ~DigestIsAfter(since_dt')]_vars

\* the second run took its cutoff from the checkpoint of the first one, which
\* had written the digest note, and found nothing to select
C40_SecondRunSkipsDigest ==
    /\ runs = 2 /\ since = None /\ cfgSince = None
    /\ pc = "done" /\ result = 2
    /\ digest.exists /\ digest = pre.digest
    /\ since_dt = pre.stateFile.last_run_iso
    /\ digest.mtime <= since_dt

====
